---- MODULE Spec2Model ----
(***************************************************************************)
(* Bin allocation and reservation engine of the sorting robot:             *)
(* robot/bin_state_tracker.py (BinStateTracker) and its callers in         *)
(* robot/api/client.py.                                                    *)
(*                                                                         *)
(* Python values are represented as follows.                               *)
(*   - None as a bin occupant / category id: the reserved string None.     *)
(*   - Optional[BinCoordinates]: a sequence of length 0 (None) or 1.       *)
(*   - a dict: a function whose DOMAIN is the dict's key set.              *)
(*   - a state id: a natural number, the row number of the snapshot in     *)
(*     the database; NoId is None.                                         *)
(***************************************************************************)
EXTENDS Integers, Sequences, FiniteSets, TLC

VARIABLES
    ENABLE_MISC_BIN,            \* the module-level flag (False as shipped), never reassigned
    distribution_modules,       \* constructor argument, never reassigned
    available_bin_coordinates,  \* self.available_bin_coordinates
    current_state,              \* self.current_state : key -> occupant
    current_bin_state_id,       \* self.current_bin_state_id
    misc_bin_coordinates,       \* self.misc_bin_coordinates
    fallback_bin_coordinates,   \* self.fallback_bin_coordinates
    set_bins,                   \* self.set_bins : set_id -> list of coordinates
    saved_bin_state,            \* database: contents of the most recent snapshot row
    saved_bin_state_id,         \* database: id of the most recent snapshot row
    calls,                      \* number of calls made since construction
    callers,                    \* each caller's position in "find a bin, then reserve it"
    last,                       \* the call that just returned: arguments, result, effects
    placed,                     \* history: (category, coordinate) pairs placed by find+reserve
    alloc_log,                  \* history: completed find+reserve allocations, in order
    trip,                       \* history: the reserve/release round trip under way (SpecSets)
    lego_sets,                  \* database: set ids of the rows of table lego_sets
    set_inventories,            \* database: (set, item, colour) -> quantity needed and found
    active_sorting_sets,        \* database: the rows of table active_sorting_sets, in rowid order
    reply,                      \* the set-sorting call that just returned (SpecSetSorting)
    lifecycle                   \* history: the last activation or deactivation of each set

vars == <<ENABLE_MISC_BIN, distribution_modules, available_bin_coordinates, current_state,
          current_bin_state_id, misc_bin_coordinates, fallback_bin_coordinates,
          set_bins, saved_bin_state, saved_bin_state_id, calls,
          callers, last, placed, alloc_log, trip,
          lego_sets, set_inventories, active_sorting_sets, reply, lifecycle>>

\* the set-sorting side: SetManager's tables and the record of its calls
set_vars == <<lego_sets, set_inventories, active_sorting_sets, reply, lifecycle>>

-----------------------------------------------------------------------------
(* Bounds of the model *)

\* cap on the calls made in one run of Spec
MaxCalls == 2
\* cap on the allocations recorded in alloc_log (SpecAlloc)
MaxAllocs == 4
\* cap on the calls made in one run of SpecSets
MaxSetCalls == 5
\* calls begun by the two threads of SpecThreads
MaxThreadCalls == 3
\* calls of the set-sorting specification
MaxSortingCalls == 3

-----------------------------------------------------------------------------
(* Program constants *)

None == "None"
NoId == 0

\* the settings of the flag ENABLE_MISC_BIN a build can have (line 5 ships False)
MiscBinSettings == BOOLEAN
misc_category_id == "misc"
fallback_category_id == "fallback"
set_bin_prefix == "set:"

-----------------------------------------------------------------------------
(* Inputs *)

Coord(m, b) == [distribution_module_idx |-> m, bin_idx |-> b]

\* module 0 at 50cm with 2 bins and module 1 at 10cm with 1 bin (the order by
\* distance differs from the order by index); one module with one bin; no
\* module at all.
ScenarioModules == << [distance |-> 50, bins |-> 2], [distance |-> 10, bins |-> 1] >>
Topologies ==
    { ScenarioModules,
      << [distance |-> 10, bins |-> 1] >>,
      << >> }

\* a coordinate that is in none of the topologies
OutsideCoordinates == Coord(1, 1)

PlainCategories == {"A", "B"}
SetIds == {"s1", "s2"}
\* category ids asked for by the routing pipeline
RequestCategories == PlainCategories \cup {fallback_category_id, misc_category_id, "set:s1"}
\* category ids written by a direct reserveBin call and by the administrative update
ReserveCategories == {"B"}
UpdateCategories == {None, "A", "set:s1"}
NumBinsInputs == {1, 2}
Callers == {"c1", "c2"}
\* category ids asked for in SpecAlloc
AllocCategories == {"A", "B", "C"}

-----------------------------------------------------------------------------
(* Pure helpers *)

binCoordinatesToKey(coordinates) ==
    ToString(coordinates.distribution_module_idx) \o "_" \o ToString(coordinates.bin_idx)

\* dict.get(key): None when the key is absent
DictGet(d, key) == IF key \in DOMAIN d THEN d[key] ELSE None

\* d[key] = value: overwrites, or adds the key when it is absent
DictSet(d, key, value) ==
    [k \in (DOMAIN d) \cup {key} |-> IF k = key THEN value ELSE d[k]]

\* d.update(other)
DictUpdate(d, other) ==
    [k \in (DOMAIN d) \cup (DOMAIN other) |-> IF k \in DOMAIN other THEN other[k] ELSE d[k]]

\* del d[key]
DictDel(d, key) == [k \in (DOMAIN d) \ {key} |-> d[k]]

EmptyDict == [k \in {} |-> None]

RECURSIVE BinsOfModule(_, _, _)
BinsOfModule(dm_idx, bin_idx, n) ==
    IF bin_idx >= n THEN << >>
    ELSE <<Coord(dm_idx, bin_idx)>> \o BinsOfModule(dm_idx, bin_idx + 1, n)

RECURSIVE FlattenModules(_, _)
FlattenModules(modules, order) ==
    IF order = << >> THEN << >>
    ELSE BinsOfModule(Head(order), 0, modules[Head(order) + 1].bins)
         \o FlattenModules(modules, Tail(order))

\* sorted(enumerate(modules), key=distance): Python's sort is stable, so
\* modules at the same distance keep their enumeration order.
SortedModules(modules) ==
    SortSeq([i \in 1..Len(modules) |-> i - 1],
            LAMBDA a, b: \/ modules[a + 1].distance < modules[b + 1].distance
                         \/ /\ modules[a + 1].distance = modules[b + 1].distance
                            /\ a < b)

_buildAvailableBinCoordinates(modules) ==
    FlattenModules(modules, SortedModules(modules))

\* sorted(self.available_bin_coordinates,
\*        key=lambda c: (c["distribution_module_idx"], c["bin_idx"]))
sorted_coordinates(coords) ==
    SortSeq(coords,
            LAMBDA a, b: \/ a.distribution_module_idx < b.distribution_module_idx
                         \/ /\ a.distribution_module_idx = b.distribution_module_idx
                            /\ a.bin_idx < b.bin_idx)

Range(seq) == { seq[i] : i \in 1..Len(seq) }

\* the first element of seq that is in wanted, as an Optional
\* (a loop "for x in seq: if ...: return x")
FirstIn(seq, wanted) ==
    LET hits == { i \in 1..Len(seq) : seq[i] \in wanted }
    IN  IF hits = {} THEN << >>
        ELSE << seq[CHOOSE i \in hits : \A j \in hits : i <= j] >>

-----------------------------------------------------------------------------
(* The tracker object.  An operation is a function from the object's fields *)
(* (a record t) to the fields after the call; the record also carries the   *)
(* call's return value, the exception it raised (None when it returned),    *)
(* and the effects it had on the store ("apply"), the database ("persist")  *)
(* and the observers ("broadcast"), in the order they happened.  Once       *)
(* t.raised is set the remaining statements of the call are skipped.        *)

Self ==
    [ available_bin_coordinates |-> available_bin_coordinates,
      current_state |-> current_state,
      current_bin_state_id |-> current_bin_state_id,
      misc_bin_coordinates |-> misc_bin_coordinates,
      fallback_bin_coordinates |-> fallback_bin_coordinates,
      set_bins |-> set_bins,
      saved_bin_state |-> saved_bin_state,
      saved_bin_state_id |-> saved_bin_state_id,
      result |-> << >>,
      raised |-> None,
      events |-> << >> ]

\* self.current_state[key] = category_id
SetItem(t, key, category_id) ==
    IF t.raised # None THEN t
    ELSE [t EXCEPT !.current_state = DictSet(@, key, category_id),
                   !.events = Append(@, "apply")]

_reserveBinInternal(t, coordinates, category_id) ==
    SetItem(t, binCoordinatesToKey(coordinates), category_id)

\* self.current_bin_state_id = self.saveBinState(): the database stores the
\* contents under a new id and returns it, or raises (save_ok = FALSE) and
\* the assignment does not happen.
saveBinState(t, save_ok) ==
    IF t.raised # None THEN t
    ELSE IF save_ok
    THEN [t EXCEPT !.saved_bin_state = t.current_state,
                   !.saved_bin_state_id = t.saved_bin_state_id + 1,
                   !.current_bin_state_id = t.saved_bin_state_id + 1,
                   !.events = Append(@, "persist")]
    ELSE [t EXCEPT !.raised = "PersistenceFailure"]

\* self.websocket_manager.broadcast_bin_state(bin_state)
broadcast_bin_state(t, broadcast_ok) ==
    IF t.raised # None THEN t
    ELSE IF broadcast_ok
    THEN [t EXCEPT !.events = Append(@, "broadcast")]
    ELSE [t EXCEPT !.raised = "BroadcastFailure"]

\* the coordinates of the topology whose current_state.get(key) is category_id
BinsHolding(t, category_id) ==
    { c \in Range(t.available_bin_coordinates) :
        DictGet(t.current_state, binCoordinatesToKey(c)) = category_id }

\* findAvailableBin with its two loops in the wrong order: an Empty bin is
\* taken before a bin that already holds the category
findAvailableBin_EmptyFirst(t, category_id) ==
    LET sorted == sorted_coordinates(t.available_bin_coordinates)
        existing == FirstIn(sorted, BinsHolding(t, category_id))
        empty == FirstIn(sorted, BinsHolding(t, None))
    IN  IF empty # << >> THEN empty
        ELSE IF existing # << >> THEN existing
        ELSE t.fallback_bin_coordinates

\* findAvailableBin with the overflow tiers in the wrong order: the Fallback
\* bin is preferred to the Misc bin
findAvailableBin_FallbackFirst(t, category_id) ==
    LET sorted == sorted_coordinates(t.available_bin_coordinates)
        existing == FirstIn(sorted, BinsHolding(t, category_id))
        empty == FirstIn(sorted, BinsHolding(t, None))
    IN  IF existing # << >> THEN existing
        ELSE IF empty # << >> THEN empty
        ELSE IF category_id # misc_category_id /\ category_id # fallback_category_id
        THEN IF t.fallback_bin_coordinates # << >>
             THEN t.fallback_bin_coordinates
             ELSE IF ENABLE_MISC_BIN /\ t.misc_bin_coordinates # << >>
             THEN t.misc_bin_coordinates
             ELSE << >>
        ELSE << >>

findAvailableBin(t, category_id) ==
    LET sorted == sorted_coordinates(t.available_bin_coordinates)
        existing == FirstIn(sorted, BinsHolding(t, category_id))
        empty == FirstIn(sorted, BinsHolding(t, None))
    IN  IF existing # << >> THEN existing
        ELSE IF empty # << >> THEN empty
        ELSE IF category_id # misc_category_id /\ category_id # fallback_category_id
        THEN IF ENABLE_MISC_BIN /\ t.misc_bin_coordinates # << >>
             THEN t.misc_bin_coordinates
             ELSE IF t.fallback_bin_coordinates # << >>
             THEN t.fallback_bin_coordinates
             ELSE << >>
        ELSE << >>

\* the guard of reserveBin protecting the wrong bin
OverwritesFallback_Misc(current_category, category_id) ==
    current_category = misc_category_id /\ category_id # misc_category_id

\* the guard of reserveBin (lines 162-165)
OverwritesFallback(current_category, category_id) ==
    current_category = fallback_category_id /\ category_id # fallback_category_id

reserveBin(t, coordinates, category_id, save_ok, broadcast_ok) ==
    LET key == binCoordinatesToKey(coordinates)
        current_category == DictGet(t.current_state, key)
    IN  IF OverwritesFallback(current_category, category_id)
        THEN t
        ELSE broadcast_bin_state(
                 saveBinState(_reserveBinInternal(t, coordinates, category_id), save_ok),
                 broadcast_ok)

\* updateBinCategory going through the guarded path
updateBinCategory_Guarded(t, coordinates, category_id, save_ok, broadcast_ok) ==
    reserveBin(t, coordinates, category_id, save_ok, broadcast_ok)

updateBinCategory(t, coordinates, category_id, save_ok, broadcast_ok) ==
    broadcast_bin_state(
        saveBinState(SetItem(t, binCoordinatesToKey(coordinates), category_id), save_ok),
        broadcast_ok)

setMiscBin(t, coordinates, save_ok, broadcast_ok) ==
    updateBinCategory([t EXCEPT !.misc_bin_coordinates = <<coordinates>>],
                      coordinates, misc_category_id, save_ok, broadcast_ok)

setFallbackBin(t, coordinates, save_ok, broadcast_ok) ==
    updateBinCategory([t EXCEPT !.fallback_bin_coordinates = <<coordinates>>],
                      coordinates, fallback_category_id, save_ok, broadcast_ok)

RECURSIVE ReserveEmptyBins_OverwriteCategories(_, _, _, _, _)
\* the loop of reserve_bins_for_set skipping only the Fallback and Misc bins:
\* a bin that holds a category or another set's reservation is taken
ReserveEmptyBins_OverwriteCategories(t, coords, reserved_bins, set_category, num_bins) ==
    IF coords = << >> \/ Len(reserved_bins) >= num_bins
    THEN [t |-> t, reserved_bins |-> reserved_bins]
    ELSE IF DictGet(t.current_state, binCoordinatesToKey(Head(coords)))
                \in {fallback_category_id, misc_category_id}
    THEN ReserveEmptyBins_OverwriteCategories(t, Tail(coords), reserved_bins,
                                              set_category, num_bins)
    ELSE ReserveEmptyBins_OverwriteCategories(
             _reserveBinInternal(t, Head(coords), set_category),
             Tail(coords), Append(reserved_bins, Head(coords)),
             set_category, num_bins)

RECURSIVE ReserveEmptyBins(_, _, _, _, _)
\* the loop of reserve_bins_for_set (lines 234-248); returns the object and reserved_bins
ReserveEmptyBins(t, coords, reserved_bins, set_category, num_bins) ==
    IF coords = << >> \/ Len(reserved_bins) >= num_bins
    THEN [t |-> t, reserved_bins |-> reserved_bins]
    ELSE IF DictGet(t.current_state, binCoordinatesToKey(Head(coords))) # None
    THEN ReserveEmptyBins(t, Tail(coords), reserved_bins, set_category, num_bins)
    ELSE ReserveEmptyBins(_reserveBinInternal(t, Head(coords), set_category),
                          Tail(coords), Append(reserved_bins, Head(coords)),
                          set_category, num_bins)

reserve_bins_for_set(t, set_id, num_bins, save_ok, broadcast_ok) ==
    LET loop == ReserveEmptyBins(t, sorted_coordinates(t.available_bin_coordinates),
                                 << >>, set_bin_prefix \o set_id, num_bins)
        reserved_bins == loop.reserved_bins
        grouped == [loop.t EXCEPT !.set_bins = DictSet(@, set_id, reserved_bins)]
        done == IF reserved_bins # << >>
                THEN broadcast_bin_state(saveBinState(grouped, save_ok), broadcast_ok)
                ELSE loop.t
    IN  IF done.raised # None THEN done ELSE [done EXCEPT !.result = reserved_bins]

RECURSIVE ClearBins(_, _)
\* the loop of release_set_bins (lines 276-278)
ClearBins(t, coords) ==
    IF coords = << >> THEN t
    ELSE ClearBins(SetItem(t, binCoordinatesToKey(Head(coords)), None), Tail(coords))

\* release_set_bins that saves and broadcasts also when there is no group
release_set_bins_AlwaysSave(t, set_id, save_ok, broadcast_ok) ==
    IF set_id \notin DOMAIN t.set_bins
    THEN broadcast_bin_state(saveBinState(t, save_ok), broadcast_ok)
    ELSE LET cleared == ClearBins(t, t.set_bins[set_id])
             deleted == [cleared EXCEPT !.set_bins = DictDel(@, set_id)]
         IN  broadcast_bin_state(saveBinState(deleted, save_ok), broadcast_ok)

\* release_set_bins that deletes the group and leaves the bins tagged
release_set_bins_KeepTags(t, set_id, save_ok, broadcast_ok) ==
    IF set_id \notin DOMAIN t.set_bins THEN t
    ELSE broadcast_bin_state(
             saveBinState([t EXCEPT !.set_bins = DictDel(@, set_id)], save_ok),
             broadcast_ok)

release_set_bins(t, set_id, save_ok, broadcast_ok) ==
    IF set_id \notin DOMAIN t.set_bins THEN t
    ELSE LET cleared == ClearBins(t, t.set_bins[set_id])
             deleted == [cleared EXCEPT !.set_bins = DictDel(@, set_id)]
         IN  broadcast_bin_state(saveBinState(deleted, save_ok), broadcast_ok)

find_bin_for_set_piece(t, set_id, save_ok) ==
    LET set_category == set_bin_prefix \o set_id
        sorted == sorted_coordinates(t.available_bin_coordinates)
        existing == FirstIn(sorted, BinsHolding(t, set_category))
        empty == FirstIn(sorted, BinsHolding(t, None))
        group == IF set_id \in DOMAIN t.set_bins THEN t.set_bins[set_id] ELSE << >>
    IN  IF set_id \in DOMAIN t.set_bins /\ t.set_bins[set_id] # << >>
        THEN [t EXCEPT !.result = <<t.set_bins[set_id][1]>>]
        ELSE IF existing # << >>
        THEN [t EXCEPT !.result = existing]
        ELSE IF empty # << >>
        THEN LET reserved == _reserveBinInternal(t, empty[1], set_category)
                 grouped == [reserved EXCEPT !.set_bins = DictSet(@, set_id, Append(group, empty[1]))]
                 saved == saveBinState(grouped, save_ok)
             IN  IF saved.raised # None THEN saved ELSE [saved EXCEPT !.result = empty]
        ELSE [t EXCEPT !.result = t.fallback_bin_coordinates]

\* the constructor reserving the nearest bins instead of the farthest: the
\* first coordinate as Fallback and the second as Misc
Construct_NearestReserved(modules, bin_state_id, db_rows) ==
    LET available == _buildAvailableBinCoordinates(modules)
        n == Len(available)
        t0 == [ available_bin_coordinates |-> available,
                current_state |-> [k \in { binCoordinatesToKey(c) : c \in Range(available) } |-> None],
                current_bin_state_id |-> NoId,
                misc_bin_coordinates |-> << >>,
                fallback_bin_coordinates |-> << >>,
                set_bins |-> EmptyDict,
                saved_bin_state |-> IF db_rows = << >> THEN EmptyDict
                                    ELSE db_rows[Len(db_rows)].bin_contents,
                saved_bin_state_id |-> Len(db_rows),
                result |-> << >>,
                raised |-> None,
                events |-> << >> ]
        previous_state == IF bin_state_id # None /\ db_rows # << >>
                          THEN <<db_rows[Len(db_rows)]>> ELSE << >>
        loaded == IF previous_state # << >>
                  THEN [t0 EXCEPT !.current_state = DictUpdate(@, previous_state[1].bin_contents),
                                  !.current_bin_state_id = previous_state[1].id]
                  ELSE t0
        reserved == IF ENABLE_MISC_BIN /\ n >= 2
                    THEN [_reserveBinInternal(
                              _reserveBinInternal(loaded, available[2], misc_category_id),
                              available[1], fallback_category_id)
                          EXCEPT !.misc_bin_coordinates = <<available[2]>>,
                                 !.fallback_bin_coordinates = <<available[1]>>]
                    ELSE IF n >= 1
                    THEN [_reserveBinInternal(loaded, available[1], fallback_category_id)
                          EXCEPT !.fallback_bin_coordinates = <<available[1]>>]
                    ELSE loaded
        created == IF previous_state = << >> THEN saveBinState(reserved, TRUE) ELSE reserved
    IN  [created EXCEPT !.events = << >>]

\* BinStateTracker.__init__: db_rows is the snapshot table when the process
\* starts (at most its most recent row is read), bin_state_id the argument.
Construct(modules, bin_state_id, db_rows) ==
    LET available == _buildAvailableBinCoordinates(modules)
        n == Len(available)
        t0 == [ available_bin_coordinates |-> available,
                current_state |-> [k \in { binCoordinatesToKey(c) : c \in Range(available) } |-> None],
                current_bin_state_id |-> NoId,
                misc_bin_coordinates |-> << >>,
                fallback_bin_coordinates |-> << >>,
                set_bins |-> EmptyDict,
                saved_bin_state |-> IF db_rows = << >> THEN EmptyDict
                                    ELSE db_rows[Len(db_rows)].bin_contents,
                saved_bin_state_id |-> Len(db_rows),
                result |-> << >>,
                raised |-> None,
                events |-> << >> ]
        previous_state == IF bin_state_id # None /\ db_rows # << >>
                          THEN <<db_rows[Len(db_rows)]>> ELSE << >>
        loaded == IF previous_state # << >>
                  THEN [t0 EXCEPT !.current_state = DictUpdate(@, previous_state[1].bin_contents),
                                  !.current_bin_state_id = previous_state[1].id]
                  ELSE t0
        reserved == IF ENABLE_MISC_BIN /\ n >= 2
                    THEN [_reserveBinInternal(
                              _reserveBinInternal(loaded, available[n - 1], misc_category_id),
                              available[n], fallback_category_id)
                          EXCEPT !.misc_bin_coordinates = <<available[n - 1]>>,
                                 !.fallback_bin_coordinates = <<available[n]>>]
                    ELSE IF n >= 1
                    THEN [_reserveBinInternal(loaded, available[n], fallback_category_id)
                          EXCEPT !.fallback_bin_coordinates = <<available[n]>>]
                    ELSE loaded
        created == IF previous_state = << >> THEN saveBinState(reserved, TRUE) ELSE reserved
    IN  [created EXCEPT !.events = << >>]

-----------------------------------------------------------------------------
(* Construction *)

\* occupants found in a snapshot left by an earlier run
SnapshotOccupants == {"A", fallback_category_id, "set:s1"}

\* snapshots an earlier run can have left: all bins empty, one occupant in
\* the nearest or in the farthest bin, or the first snapshot of a run with
\* another topology
PreviousSnapshots(modules) ==
    LET available == _buildAvailableBinCoordinates(modules)
        keys == { binCoordinatesToKey(c) : c \in Range(available) }
        ends == IF available = << >> THEN {}
                ELSE { binCoordinatesToKey(available[1]),
                       binCoordinatesToKey(available[Len(available)]) }
    IN  { [k \in keys |-> None] }
        \cup { [k \in keys |-> IF k = key THEN occupant ELSE None] :
                 key \in ends, occupant \in SnapshotOccupants }
        \cup { Construct(m, None, << >>).current_state : m \in Topologies \ {modules} }

DatabaseRows(modules) ==
    { << >> } \cup { << [id |-> 1, bin_contents |-> snap] >> : snap \in PreviousSnapshots(modules) }

\* coordinates a request can carry: those of the topology and one outside it
InputCoordinates == Range(available_bin_coordinates) \cup {OutsideCoordinates}

\* no round trip under way
NoTrip == [ stage |-> 0, set_id |-> None, num_bins |-> 0, contents |-> EmptyDict,
            had_group |-> FALSE, reserved |-> << >> ]

\* no set-sorting call has returned yet
NoReply ==
    [ op |-> "None", set_id |-> None, item_id |-> None, color_id |-> None,
      success |-> FALSE, returned |-> None, sets |-> << >>,
      destination |-> <<None, None>>, raised |-> None, status |-> 0 ]

IdleCaller == [pc |-> "idle", category_id |-> None, coordinates |-> << >>]

\* the record of a call: its arguments, the occupant of the addressed
\* coordinate before it, and what the call returned and did
Call(op, coordinates, category_id, set_id, num_bins, t) ==
    [ op |-> op, coordinates |-> coordinates, category_id |-> category_id,
      set_id |-> set_id, num_bins |-> num_bins,
      before |-> IF coordinates = << >> THEN None
                 ELSE DictGet(current_state, binCoordinatesToKey(coordinates[1])),
      result |-> t.result, raised |-> t.raised, events |-> t.events ]

\* the object's fields after the call
Commit(t) ==
    /\ current_state' = t.current_state
    /\ current_bin_state_id' = t.current_bin_state_id
    /\ misc_bin_coordinates' = t.misc_bin_coordinates
    /\ fallback_bin_coordinates' = t.fallback_bin_coordinates
    /\ set_bins' = t.set_bins
    /\ saved_bin_state' = t.saved_bin_state
    /\ saved_bin_state_id' = t.saved_bin_state_id
    /\ UNCHANGED <<ENABLE_MISC_BIN, distribution_modules, available_bin_coordinates>>

\* no set is known, active or being sorted (the specifications of the bin
\* tracker alone)
NoSetSorting ==
    /\ lego_sets = {}
    /\ set_inventories = EmptyDict
    /\ active_sorting_sets = << >>
    /\ reply = NoReply
    /\ lifecycle = EmptyDict

Constructed(modules, bin_state_id, db_rows) ==
    LET t == Construct(modules, bin_state_id, db_rows)
    IN  /\ distribution_modules = modules
        /\ available_bin_coordinates = t.available_bin_coordinates
        /\ current_state = t.current_state
        /\ current_bin_state_id = t.current_bin_state_id
        /\ misc_bin_coordinates = t.misc_bin_coordinates
        /\ fallback_bin_coordinates = t.fallback_bin_coordinates
        /\ set_bins = t.set_bins
        /\ saved_bin_state = t.saved_bin_state
        /\ saved_bin_state_id = t.saved_bin_state_id
        /\ calls = 0
        /\ callers = [c \in Callers |-> IdleCaller]
        /\ last = [ op |-> "__init__", coordinates |-> << >>, category_id |-> None,
                    set_id |-> None, num_bins |-> 0, before |-> None,
                    result |-> << >>, raised |-> None, events |-> << >> ]
        /\ placed = {}
        /\ alloc_log = << >>
        /\ trip = NoTrip

Init ==
    /\ NoSetSorting
    /\ ENABLE_MISC_BIN \in MiscBinSettings
    /\ \E modules \in Topologies :
          \E bin_state_id \in {None, "latest"} :
              \E db_rows \in DatabaseRows(modules) :
                  Constructed(modules, bin_state_id, db_rows)

-----------------------------------------------------------------------------
(* Calls.  In Spec every call runs to completion before the next one starts, *)
(* and the routing pipeline's "find a bin, then reserve it" is one request   *)
(* (Allocate); a reserveBin whose coordinate was found earlier, with other   *)
(* calls in between, is a ReserveBin call.  SpecAlloc (below) interleaves    *)
(* the find and reserve steps of two callers.                                *)

\* placed keeps the pairs (category, coordinate) put there by a completed
\* find+reserve for as long as the coordinate holds the category
KeepPlaced(pairs) ==
    placed' = { p \in pairs :
                  DictGet(current_state', binCoordinatesToKey(p.coordinates)) = p.category_id }

\* findAvailableBin alone (a query)
FindAvailableBin(category_id) ==
    /\ last' = Call("findAvailableBin", << >>, category_id, None, 0,
                    [Self EXCEPT !.result = findAvailableBin(Self, category_id)])
    /\ Commit(Self)
    /\ KeepPlaced(placed)
    /\ UNCHANGED callers

\* findAvailableBin, then reserveBin on the coordinate it returned
Allocate(category_id, save_ok, broadcast_ok) ==
    LET found == findAvailableBin(Self, category_id)
    IN  /\ found # << >>
        /\ LET t == reserveBin(Self, found[1], category_id, save_ok, broadcast_ok)
           IN  /\ Commit(t)
               /\ last' = Call("reserveBin", found, category_id, None, 0,
                               [t EXCEPT !.result = found])
               /\ KeepPlaced(IF t.raised # None THEN placed
                             ELSE placed \cup {[category_id |-> category_id,
                                                coordinates |-> found[1]]})
        /\ UNCHANGED callers

\* reserveBin called with coordinates of the caller's own choosing
ReserveBin(coordinates, category_id, save_ok, broadcast_ok) ==
    LET t == reserveBin(Self, coordinates, category_id, save_ok, broadcast_ok)
    IN  /\ Commit(t)
        /\ last' = Call("reserveBin", <<coordinates>>, category_id, None, 0, t)
        /\ KeepPlaced(placed)
        /\ UNCHANGED callers

\* API.updateBinCategory
UpdateBinCategory(coordinates, category_id, save_ok, broadcast_ok) ==
    LET t == updateBinCategory(Self, coordinates, category_id, save_ok, broadcast_ok)
    IN  /\ Commit(t)
        /\ last' = Call("updateBinCategory", <<coordinates>>, category_id, None, 0, t)
        /\ KeepPlaced(placed)
        /\ UNCHANGED callers

\* API.setMiscBin
SetMiscBin(coordinates, save_ok, broadcast_ok) ==
    LET t == setMiscBin(Self, coordinates, save_ok, broadcast_ok)
    IN  /\ Commit(t)
        /\ last' = Call("setMiscBin", <<coordinates>>, misc_category_id, None, 0, t)
        /\ KeepPlaced(placed)
        /\ UNCHANGED callers

\* API.setFallbackBin
SetFallbackBin(coordinates, save_ok, broadcast_ok) ==
    LET t == setFallbackBin(Self, coordinates, save_ok, broadcast_ok)
    IN  /\ Commit(t)
        /\ last' = Call("setFallbackBin", <<coordinates>>, fallback_category_id, None, 0, t)
        /\ KeepPlaced(placed)
        /\ UNCHANGED callers

ReserveBinsForSet(set_id, num_bins, save_ok, broadcast_ok) ==
    LET t == reserve_bins_for_set(Self, set_id, num_bins, save_ok, broadcast_ok)
    IN  /\ Commit(t)
        /\ last' = Call("reserve_bins_for_set", << >>, None, set_id, num_bins, t)
        /\ KeepPlaced(placed)
        /\ UNCHANGED callers

ReleaseSetBins(set_id, save_ok, broadcast_ok) ==
    LET t == release_set_bins(Self, set_id, save_ok, broadcast_ok)
    IN  /\ Commit(t)
        /\ last' = Call("release_set_bins", << >>, None, set_id, 0, t)
        /\ KeepPlaced(placed)
        /\ UNCHANGED callers

FindBinForSetPiece(set_id, save_ok) ==
    LET t == find_bin_for_set_piece(Self, set_id, save_ok)
    IN  /\ Commit(t)
        /\ last' = Call("find_bin_for_set_piece", << >>, None, set_id, 0, t)
        /\ KeepPlaced(placed)
        /\ UNCHANGED callers

\* a step of Spec: one call, counted; a run is followed up to MaxCalls calls
\* and up to the first call that raises
Step(call) ==
    /\ calls < MaxCalls
    /\ last.raised = None
    /\ call
    /\ calls' = calls + 1
    /\ UNCHANGED <<alloc_log, trip>>
    /\ UNCHANGED set_vars

Next ==
    \/ \E category_id \in RequestCategories :
          Step(FindAvailableBin(category_id))
    \/ \E category_id \in PlainCategories, save_ok \in BOOLEAN, broadcast_ok \in BOOLEAN :
          Step(Allocate(category_id, save_ok, broadcast_ok))
    \/ \E coordinates \in InputCoordinates, category_id \in ReserveCategories, save_ok \in BOOLEAN, broadcast_ok \in BOOLEAN :
          Step(ReserveBin(coordinates, category_id, save_ok, broadcast_ok))
    \/ \E coordinates \in InputCoordinates, category_id \in UpdateCategories, save_ok \in BOOLEAN, broadcast_ok \in BOOLEAN :
          Step(UpdateBinCategory(coordinates, category_id, save_ok, broadcast_ok))
    \/ \E coordinates \in InputCoordinates, save_ok \in BOOLEAN, broadcast_ok \in BOOLEAN :
          Step(SetMiscBin(coordinates, save_ok, broadcast_ok))
    \/ \E coordinates \in InputCoordinates, save_ok \in BOOLEAN, broadcast_ok \in BOOLEAN :
          Step(SetFallbackBin(coordinates, save_ok, broadcast_ok))
    \/ \E set_id \in SetIds, num_bins \in NumBinsInputs, save_ok \in BOOLEAN, broadcast_ok \in BOOLEAN :
          Step(ReserveBinsForSet(set_id, num_bins, save_ok, broadcast_ok))
    \/ \E set_id \in SetIds, save_ok \in BOOLEAN, broadcast_ok \in BOOLEAN :
          Step(ReleaseSetBins(set_id, save_ok, broadcast_ok))
    \/ \E set_id \in SetIds, save_ok \in BOOLEAN :
          Step(FindBinForSetPiece(set_id, save_ok))

Spec == Init /\ [][Next]_vars

-----------------------------------------------------------------------------
(* SpecAlloc: two callers allocate bins on a freshly constructed tracker,   *)
(* each by findAvailableBin followed by reserveBin; the two calls of one    *)
(* caller are separate steps, so the calls of the other can fall between    *)
(* them.  alloc_log records each allocation when it completes.              *)

InitAlloc ==
    /\ NoSetSorting
    /\ ENABLE_MISC_BIN = FALSE
    /\ \E modules \in Topologies : Constructed(modules, None, << >>)

Started == Len(alloc_log) + Cardinality({ c \in Callers : callers[c].pc = "found" })

AllocFind(caller, category_id) ==
    /\ callers[caller].pc = "idle"
    /\ Started < MaxAllocs
    /\ LET found == findAvailableBin(Self, category_id)
       IN  /\ last' = Call("findAvailableBin", << >>, category_id, None, 0,
                           [Self EXCEPT !.result = found])
           /\ IF found = << >>
              THEN /\ UNCHANGED callers
                   /\ alloc_log' = Append(alloc_log,
                          [caller |-> caller, category_id |-> category_id,
                           coordinates |-> << >>])
              ELSE /\ callers' = [callers EXCEPT ![caller] =
                          [pc |-> "found", category_id |-> category_id,
                           coordinates |-> found]]
                   /\ UNCHANGED alloc_log
    /\ Commit(Self)
    /\ KeepPlaced(placed)
    /\ calls' = calls + 1
    /\ UNCHANGED trip
    /\ UNCHANGED set_vars

AllocReserve(caller) ==
    /\ callers[caller].pc = "found"
    /\ LET coordinates == callers[caller].coordinates[1]
           category_id == callers[caller].category_id
           t == reserveBin(Self, coordinates, category_id, TRUE, TRUE)
       IN  /\ Commit(t)
           /\ last' = Call("reserveBin", <<coordinates>>, category_id, None, 0, t)
           /\ KeepPlaced(placed \cup {[category_id |-> category_id,
                                       coordinates |-> coordinates]})
           /\ alloc_log' = Append(alloc_log,
                  [caller |-> caller, category_id |-> category_id,
                   coordinates |-> <<coordinates>>])
    /\ callers' = [callers EXCEPT ![caller] = IdleCaller]
    /\ calls' = calls + 1
    /\ UNCHANGED trip
    /\ UNCHANGED set_vars

NextAlloc ==
    \/ \E caller \in Callers, category_id \in AllocCategories :
          AllocFind(caller, category_id)
    \/ \E caller \in Callers : AllocReserve(caller)

SpecAlloc == InitAlloc /\ [][NextAlloc]_vars

-----------------------------------------------------------------------------
(* SpecSets: set reservations on a freshly constructed tracker whose database *)
(* accepts every write: reserve_bins_for_set, release_set_bins,               *)
(* find_bin_for_set_piece and the administrative update, up to MaxSetCalls    *)
(* calls.  trip follows a reserve_bins_for_set(s, n) (stage 1) immediately    *)
(* followed by release_set_bins(s) (stage 2) and by the same                  *)
(* reserve_bins_for_set(s, n) again (stage 3); it remembers the bin contents  *)
(* before the first reserve, whether s had a group then, and what the first   *)
(* reserve returned.                                                          *)

SetsUpdateCategories == {None, "A"}

\* no snapshot is loaded: no id is given, or the database has no row
InitSets ==
    /\ NoSetSorting
    /\ ENABLE_MISC_BIN \in MiscBinSettings
    /\ \E modules \in Topologies :
          \E bin_state_id \in {None, "latest"} :
              \E db_rows \in DatabaseRows(modules) :
                  /\ bin_state_id = None \/ db_rows = << >>
                  /\ Constructed(modules, bin_state_id, db_rows)

SetsStep(call) ==
    /\ calls < MaxSetCalls
    /\ call
    /\ calls' = calls + 1
    /\ UNCHANGED alloc_log
    /\ UNCHANGED set_vars

SetsReserve(set_id, num_bins) ==
    /\ SetsStep(ReserveBinsForSet(set_id, num_bins, TRUE, TRUE))
    /\ trip' = IF trip.stage = 2 /\ trip.set_id = set_id /\ trip.num_bins = num_bins
               THEN [trip EXCEPT !.stage = 3]
               ELSE [ stage |-> 1, set_id |-> set_id, num_bins |-> num_bins,
                      contents |-> current_state,
                      had_group |-> set_id \in DOMAIN set_bins,
                      reserved |-> reserve_bins_for_set(Self, set_id, num_bins, TRUE, TRUE).result ]

SetsRelease(set_id) ==
    /\ SetsStep(ReleaseSetBins(set_id, TRUE, TRUE))
    /\ trip' = IF trip.stage = 1 /\ trip.set_id = set_id
               THEN [trip EXCEPT !.stage = 2]
               ELSE NoTrip

SetsFindPiece(set_id) ==
    /\ SetsStep(FindBinForSetPiece(set_id, TRUE))
    /\ trip' = NoTrip

SetsUpdate(coordinates, category_id) ==
    /\ SetsStep(UpdateBinCategory(coordinates, category_id, TRUE, TRUE))
    /\ trip' = NoTrip

NextSets ==
    \/ \E set_id \in SetIds, num_bins \in NumBinsInputs : SetsReserve(set_id, num_bins)
    \/ \E set_id \in SetIds : SetsRelease(set_id)
    \/ \E set_id \in SetIds : SetsFindPiece(set_id)
    \/ \E coordinates \in Range(available_bin_coordinates),
          category_id \in SetsUpdateCategories : SetsUpdate(coordinates, category_id)

SpecSets == InitSets /\ [][NextSets]_vars

-----------------------------------------------------------------------------
(* SpecThreads: the administrative request (updateBinCategory, from the PUT   *)
(* /bin-state handler) and the routing pipeline (reserveBin) run in two       *)
(* threads on one tracker, which takes no lock.  A call is two steps: the    *)
(* assignment to current_state, then saveBinState and the broadcast; the     *)
(* steps of the other thread can fall between them.  The database accepts    *)
(* every write.                                                              *)

ThreadCategories == {None, "A", "B"}

InitThreads ==
    /\ NoSetSorting
    /\ ENABLE_MISC_BIN = FALSE
    /\ \E modules \in Topologies : Constructed(modules, None, << >>)

\* calls begun: those that returned and those between their two steps
ThreadsStarted == calls + Cardinality({ c \in Callers : callers[c].pc # "idle" })

\* updateBinCategory up to self.current_state[key] = category_id (line 190)
ThreadsUpdateApply(caller, coordinates, category_id) ==
    /\ callers[caller].pc = "idle"
    /\ ThreadsStarted < MaxThreadCalls
    /\ Commit(SetItem(Self, binCoordinatesToKey(coordinates), category_id))
    /\ callers' = [callers EXCEPT ![caller] =
           [pc |-> "updateBinCategory", category_id |-> category_id,
            coordinates |-> <<coordinates>>]]
    /\ KeepPlaced(placed)
    /\ UNCHANGED <<calls, last, alloc_log, trip>>
    /\ UNCHANGED set_vars

\* reserveBin up to self._reserveBinInternal(coordinates, category_id)
\* (line 172), or its return at the guard (line 170)
ThreadsReserveApply(caller, coordinates, category_id) ==
    /\ callers[caller].pc = "idle"
    /\ ThreadsStarted < MaxThreadCalls
    /\ IF OverwritesFallback(DictGet(current_state, binCoordinatesToKey(coordinates)),
                             category_id)
       THEN /\ Commit(Self)
            /\ last' = Call("reserveBin", <<coordinates>>, category_id, None, 0, Self)
            /\ calls' = calls + 1
            /\ UNCHANGED callers
       ELSE /\ Commit(_reserveBinInternal(Self, coordinates, category_id))
            /\ callers' = [callers EXCEPT ![caller] =
                   [pc |-> "reserveBin", category_id |-> category_id,
                    coordinates |-> <<coordinates>>]]
            /\ UNCHANGED <<calls, last>>
    /\ KeepPlaced(placed)
    /\ UNCHANGED <<alloc_log, trip>>
    /\ UNCHANGED set_vars

\* the rest of either call: self.current_bin_state_id = self.saveBinState()
\* and the broadcast (lines 173-180, 191-203)
ThreadsPersist(caller) ==
    /\ callers[caller].pc # "idle"
    /\ LET t == broadcast_bin_state(
                    saveBinState([Self EXCEPT !.events = << "apply" >>], TRUE), TRUE)
       IN  /\ Commit(t)
           /\ last' = [ Call(callers[caller].pc, callers[caller].coordinates,
                             callers[caller].category_id, None, 0, t)
                        EXCEPT !.before = None ]
    /\ callers' = [callers EXCEPT ![caller] = IdleCaller]
    /\ calls' = calls + 1
    /\ KeepPlaced(placed)
    /\ UNCHANGED <<alloc_log, trip>>
    /\ UNCHANGED set_vars

NextThreads ==
    \/ \E caller \in Callers, coordinates \in Range(available_bin_coordinates),
          category_id \in ThreadCategories :
              ThreadsUpdateApply(caller, coordinates, category_id)
    \/ \E caller \in Callers, coordinates \in Range(available_bin_coordinates),
          category_id \in PlainCategories :
              ThreadsReserveApply(caller, coordinates, category_id)
    \/ \E caller \in Callers : ThreadsPersist(caller)

SpecThreads == InitThreads /\ [][NextThreads]_vars

-----------------------------------------------------------------------------
(* Set sorting: SetManager over the tables lego_sets, set_inventories and    *)
(* active_sorting_sets, the set-aware sorting profile, the set methods of    *)
(* API and the set endpoints of the server.  An operation of SetManager is a *)
(* function from the tables (record d) to the tables after it, with what it  *)
(* returned in d.success or d.returned.                                      *)

\* self.run_id, and the run id of an earlier run of the machine
run_id == "r1"
EarlierRunId == "r0"

\* Rebrickable: the set numbers it knows, each with its inventory as
\* (part number, colour id, quantity)
RebrickableInventories ==
    ("10-1" :> { <<"3001", "1", 1>>, <<"3001", "2", 1>> })
    @@ ("20-1" :> { <<"3001", "1", 2>> })
    @@ ("30-1" :> { <<"3001", "2", 1>> })

\* the set numbers a request can carry: with and without variant suffix, in
\* the database, only on Rebrickable ("30-1"), or unknown ("40-1")
SetNums == {"10", "10-1", "20-1", "30-1", "40-1"}

\* "-" in set_num
HasVariant(set_num) == set_num \in {"10-1", "20-1", "30-1", "40-1"}

\* set_num if "-" in set_num else f"{set_num}-1"
SetIdOf(set_num) == IF HasVariant(set_num) THEN set_num ELSE set_num \o "-1"

SetManagerIds == { SetIdOf(set_num) : set_num \in SetNums }
ItemIds == {"3001", "9999"}
\* None: the colour is not given
ColorIds == {None, "1", "2"}
Priorities == {0, 1}

\* the base profile's mapping; item 9999 has no category
item_id_to_category_id_mapping == ("3001" :> "A")

getCategoryId(item_id) == DictGet(item_id_to_category_id_mapping, item_id)

\* getSetInfo(set_num): the set's data (here its set_num), or None
getSetInfo(set_num) ==
    IF set_num \in DOMAIN RebrickableInventories THEN <<set_num>> ELSE << >>

getSetInventory(set_id) == RebrickableInventories[set_id]

\* the tables as they are now
SetDb ==
    [ lego_sets |-> lego_sets,
      set_inventories |-> set_inventories,
      active_sorting_sets |-> active_sorting_sets,
      success |-> FALSE,
      returned |-> None ]

\* INSERT OR REPLACE INTO set_inventories ... for each part of the inventory:
\* quantity_needed is replaced, quantity_found kept (COALESCE) or 0
_sync_inventory(inventories, set_id) ==
    LET parts == getSetInventory(set_id)
        rows == { <<set_id, part[1], part[2]>> : part \in parts }
        quantity(row) == (CHOOSE part \in parts : part[1] = row[2] /\ part[2] = row[3])[3]
    IN  [ row \in (DOMAIN inventories) \cup rows |->
            IF row \in rows
            THEN [ quantity_needed |-> quantity(row),
                   quantity_found |-> IF row \in DOMAIN inventories
                                      THEN inventories[row].quantity_found ELSE 0 ]
            ELSE inventories[row] ]

\* SetManager.add_set: None when Rebrickable has no such set or the database
\* raises (rollback), the set id otherwise
add_set(d, set_num, db_ok) ==
    LET set_info == getSetInfo(set_num)
    IN  IF set_info = << >> THEN [d EXCEPT !.returned = None]
        ELSE IF ~db_ok THEN [d EXCEPT !.returned = None]
        ELSE [d EXCEPT !.lego_sets = @ \cup {set_info[1]},
                       !.set_inventories = _sync_inventory(@, set_info[1]),
                       !.returned = set_info[1]]

\* SetManager.activate_set
activate_set(d, set_id, priority, db_ok) ==
    IF set_id \notin d.lego_sets THEN [d EXCEPT !.success = FALSE]
    ELSE IF ~db_ok THEN [d EXCEPT !.success = FALSE]
    ELSE [d EXCEPT !.active_sorting_sets =
                       Append(@, [ run_id |-> run_id, set_id |-> set_id,
                                   priority |-> priority, disabled |-> FALSE ]),
                   !.success = TRUE]

\* deactivate_set that disables only the oldest active row of the set
deactivate_set_OldestRow(d, set_id, db_ok) ==
    IF ~db_ok THEN [d EXCEPT !.success = FALSE]
    ELSE LET rows == d.active_sorting_sets
             hits == { i \in 1..Len(rows) :
                         /\ rows[i].run_id = run_id
                         /\ rows[i].set_id = set_id
                         /\ ~rows[i].disabled }
         IN  [d EXCEPT !.active_sorting_sets =
                           [ i \in 1..Len(rows) |->
                               IF hits # {} /\ i = (CHOOSE h \in hits : \A g \in hits : h <= g)
                               THEN [rows[i] EXCEPT !.disabled = TRUE]
                               ELSE rows[i] ],
                       !.success = TRUE]

\* SetManager.deactivate_set: UPDATE ... SET disabled_at = now WHERE run_id = ?
\* AND set_id = ? AND disabled_at IS NULL
deactivate_set(d, set_id, db_ok) ==
    IF ~db_ok THEN [d EXCEPT !.success = FALSE]
    ELSE [d EXCEPT !.active_sorting_sets =
                       [ i \in 1..Len(@) |->
                           IF /\ @[i].run_id = run_id
                              /\ @[i].set_id = set_id
                              /\ ~@[i].disabled
                           THEN [@[i] EXCEPT !.disabled = TRUE]
                           ELSE @[i] ],
                   !.success = TRUE]

\* WHERE ass.run_id = ? AND ass.disabled_at IS NULL
ActiveRows(rows) == SelectSeq(rows, LAMBDA r : r.run_id = run_id /\ ~r.disabled)

\* the position of the first row of set_id
FirstRow(rows, set_id) ==
    CHOOSE i \in 1..Len(rows) :
        /\ rows[i].set_id = set_id
        /\ \A j \in 1..(i - 1) : rows[j].set_id # set_id

RECURSIVE DistinctSetIds(_)
\* SELECT DISTINCT set_id / GROUP BY set_id: one entry for each set
DistinctSetIds(rows) ==
    IF rows = << >> THEN << >>
    ELSE LET rest == DistinctSetIds(SubSeq(rows, 1, Len(rows) - 1))
         IN  IF rows[Len(rows)].set_id \in Range(rest) THEN rest
             ELSE Append(rest, rows[Len(rows)].set_id)

\* ORDER BY ass.priority DESC over the distinct sets: SQLite takes the
\* priority of a set from its first row, and keeps the row order for equal
\* priorities
ByPriority(rows) ==
    SortSeq(DistinctSetIds(rows),
            LAMBDA a, b :
                LET ra == FirstRow(rows, a)
                    rb == FirstRow(rows, b)
                IN  \/ rows[ra].priority > rows[rb].priority
                    \/ rows[ra].priority = rows[rb].priority /\ ra < rb)

\* SetManager.get_active_sets (the set ids of its rows, in their order)
get_active_sets(d) ==
    SelectSeq(ByPriority(ActiveRows(d.active_sorting_sets)),
              LAMBDA set_id : set_id \in d.lego_sets)

\* si.item_id = ? [AND si.color_id = ?] AND si.quantity_found < si.quantity_needed
\* for some inventory row of the set
NeedsPiece(d, set_id, item_id, color_id) ==
    \E row \in DOMAIN d.set_inventories :
        /\ row[1] = set_id
        /\ row[2] = item_id
        /\ color_id # None => row[3] = color_id
        /\ d.set_inventories[row].quantity_found < d.set_inventories[row].quantity_needed

\* check_piece_in_sets without the test on the quantities
check_piece_in_sets_AnyQuantity(d, item_id, color_id) ==
    SelectSeq(ByPriority(ActiveRows(d.active_sorting_sets)),
              LAMBDA set_id :
                  \E row \in DOMAIN d.set_inventories :
                      /\ row[1] = set_id
                      /\ row[2] = item_id
                      /\ color_id # None => row[3] = color_id)

\* SetManager.check_piece_in_sets
check_piece_in_sets(d, item_id, color_id) ==
    SelectSeq(ByPriority(ActiveRows(d.active_sorting_sets)),
              LAMBDA set_id : NeedsPiece(d, set_id, item_id, color_id))

\* SetManager.increment_piece_found: every row of the set and item (and of the
\* colour when given) gets quantity_found + 1
increment_piece_found(d, set_id, item_id, color_id, db_ok) ==
    IF ~db_ok THEN [d EXCEPT !.success = FALSE]
    ELSE [d EXCEPT !.set_inventories =
                       [ row \in DOMAIN @ |->
                           IF /\ row[1] = set_id
                              /\ row[2] = item_id
                              /\ color_id # None => row[3] = color_id
                           THEN [@[row] EXCEPT !.quantity_found = @ + 1]
                           ELSE @[row] ],
                   !.success = TRUE]

RECURSIVE SumOver(_, _, _)
\* SUM(si.<column>) over the rows
SumOver(inventories, rows, column) ==
    IF rows = {} THEN 0
    ELSE LET row == CHOOSE r \in rows : TRUE
         IN  inventories[row][column] + SumOver(inventories, rows \ {row}, column)

\* SetManager.get_set_progress: completion_percentage, rounded down
\* (None when the set is not in lego_sets)
completion_percentage(d, set_id) ==
    LET rows == { row \in DOMAIN d.set_inventories : row[1] = set_id }
        total_parts_needed == SumOver(d.set_inventories, rows, "quantity_needed")
        total_parts_found == SumOver(d.set_inventories, rows, "quantity_found")
    IN  IF total_parts_needed > 0
        THEN (total_parts_found * 100) \div total_parts_needed
        ELSE 0

\* get_destination taking the last matching set
get_destination_LastMatch(d, item_id, color_id) ==
    LET matching_sets == check_piece_in_sets(d, item_id, color_id)
    IN  IF matching_sets # << >>
        THEN <<None, matching_sets[Len(matching_sets)]>>
        ELSE <<getCategoryId(item_id), None>>

\* SetAwareSortingProfile.get_destination: (category_id, set id of the
\* SetDestination)
get_destination(d, item_id, color_id) ==
    LET matching_sets == check_piece_in_sets(d, item_id, color_id)
    IN  IF matching_sets # << >>
        THEN <<None, matching_sets[1]>>
        ELSE <<getCategoryId(item_id), None>>

\* API.activateSet reserving bins whatever activate_set returned
activateSet_AlwaysReserve(d, t, set_num, priority, db_ok, save_ok, broadcast_ok) ==
    LET set_id == SetIdOf(set_num)
        activated == activate_set(d, set_id, priority, db_ok)
    IN  [ d |-> activated,
          t |-> reserve_bins_for_set(t, set_id, 2, save_ok, broadcast_ok),
          reserve_called |-> TRUE ]

\* API.activateSet: the tables and the tracker after it
activateSet(d, t, set_num, priority, db_ok, save_ok, broadcast_ok) ==
    LET set_id == SetIdOf(set_num)
        activated == activate_set(d, set_id, priority, db_ok)
    IN  [ d |-> activated,
          t |-> IF activated.success
                THEN reserve_bins_for_set(t, set_id, 2, save_ok, broadcast_ok)
                ELSE t,
          reserve_called |-> activated.success ]

\* API.deactivateSet
deactivateSet(d, t, set_id, db_ok, save_ok, broadcast_ok) ==
    LET deactivated == deactivate_set(d, set_id, db_ok)
    IN  [ d |-> deactivated,
          t |-> IF deactivated.success
                THEN release_set_bins(t, set_id, save_ok, broadcast_ok)
                ELSE t,
          release_called |-> deactivated.success ]

\* the try block of an endpoint: the call raised, or it reported failure and
\* the handler raises HTTPException(status_code=failure_status), or it returns
TryBody(raised, failed, failure_status) ==
    IF raised # None THEN [exception |-> raised, status_code |-> 0]
    ELSE IF failed THEN [exception |-> "HTTPException", status_code |-> failure_status]
    ELSE [exception |-> None, status_code |-> 200]

\* except Exception as e: raise HTTPException(status_code=500, ...); every
\* exception the try block raises is an Exception, HTTPException included
ExceptException(body) ==
    IF body.exception # None
    THEN [exception |-> "HTTPException", status_code |-> 500]
    ELSE body

\* the status the endpoint responds with
ResponseStatus(raised, failed, failure_status) ==
    ExceptException(TryBody(raised, failed, failure_status)).status_code

CommitDb(d) ==
    /\ lego_sets' = d.lego_sets
    /\ set_inventories' = d.set_inventories
    /\ active_sorting_sets' = d.active_sorting_sets

\* a call that does not touch the tracker
TrackerUntouched ==
    /\ Commit(Self)
    /\ UNCHANGED <<last, placed>>

\* POST /sets/add -> API.addSet -> SetManager.add_set
PostSetsAdd(set_num, db_ok) ==
    LET d == add_set(SetDb, set_num, db_ok)
    IN  /\ CommitDb(d)
        /\ reply' = [NoReply EXCEPT !.op = "add_set", !.set_id = set_num,
                                    !.returned = d.returned,
                                    !.success = d.returned # None,
                                    !.status = ResponseStatus(None, d.returned = None, 404)]
        /\ UNCHANGED lifecycle
        /\ TrackerUntouched

\* POST /sets/activate -> API.activateSet
PostSetsActivate(set_num, priority, db_ok, save_ok) ==
    LET r == activateSet(SetDb, Self, set_num, priority, db_ok, save_ok, TRUE)
        set_id == SetIdOf(set_num)
    IN  /\ CommitDb(r.d)
        /\ Commit(r.t)
        /\ IF r.reserve_called
           THEN last' = Call("reserve_bins_for_set", << >>, None, set_id, 2, r.t)
           ELSE UNCHANGED last
        /\ KeepPlaced(placed)
        /\ reply' = [NoReply EXCEPT !.op = "activateSet", !.set_id = set_id,
                                    !.success = r.d.success,
                                    !.raised = r.t.raised,
                                    !.status = ResponseStatus(r.t.raised, ~r.d.success, 400)]
        /\ lifecycle' = IF r.d.success THEN DictSet(lifecycle, set_id, "activated")
                        ELSE lifecycle

\* DELETE /sets/{set_id}/deactivate -> API.deactivateSet
DeleteSetsDeactivate(set_id, db_ok, save_ok) ==
    LET r == deactivateSet(SetDb, Self, set_id, db_ok, save_ok, TRUE)
    IN  /\ CommitDb(r.d)
        /\ Commit(r.t)
        /\ IF r.release_called
           THEN last' = Call("release_set_bins", << >>, None, set_id, 0, r.t)
           ELSE UNCHANGED last
        /\ KeepPlaced(placed)
        /\ reply' = [NoReply EXCEPT !.op = "deactivateSet", !.set_id = set_id,
                                    !.success = r.d.success,
                                    !.raised = r.t.raised,
                                    !.status = ResponseStatus(r.t.raised, ~r.d.success, 400)]
        /\ lifecycle' = IF r.d.success THEN DictSet(lifecycle, set_id, "deactivated")
                        ELSE DictDel(lifecycle, set_id)

\* the routing pipeline asks where a classified piece goes
GetDestination(item_id, color_id) ==
    /\ reply' = [NoReply EXCEPT !.op = "get_destination", !.item_id = item_id,
                                !.color_id = color_id,
                                !.sets = check_piece_in_sets(SetDb, item_id, color_id),
                                !.destination = get_destination(SetDb, item_id, color_id)]
    /\ CommitDb(SetDb)
    /\ UNCHANGED lifecycle
    /\ TrackerUntouched

\* SetAwareSortingProfile.record_set_piece_found ->
\* SetManager.increment_piece_found
RecordSetPieceFound(item_id, set_id, color_id, db_ok) ==
    LET d == increment_piece_found(SetDb, set_id, item_id, color_id, db_ok)
    IN  /\ CommitDb(d)
        /\ reply' = [NoReply EXCEPT !.op = "increment_piece_found", !.set_id = set_id,
                                    !.item_id = item_id, !.color_id = color_id,
                                    !.success = d.success]
        /\ UNCHANGED lifecycle
        /\ TrackerUntouched

\* the tables when the run starts: sets 10-1 and 20-1 were added earlier,
\* nothing found yet; an earlier run may have left 20-1 active
InitialActiveRows ==
    { << >>,
      << [ run_id |-> EarlierRunId, set_id |-> "20-1", priority |-> 1, disabled |-> FALSE ] >> }

InitSetSorting ==
    /\ ENABLE_MISC_BIN = FALSE
    /\ Constructed(ScenarioModules, None, << >>)
    /\ lego_sets = {"10-1", "20-1"}
    /\ set_inventories = _sync_inventory(_sync_inventory(EmptyDict, "10-1"), "20-1")
    /\ active_sorting_sets \in InitialActiveRows
    /\ reply = NoReply
    /\ lifecycle = EmptyDict

SetSortingStep(call) ==
    /\ calls < MaxSortingCalls
    /\ call
    /\ calls' = calls + 1
    /\ UNCHANGED <<callers, alloc_log, trip>>

NextSetSorting ==
    \/ \E set_num \in SetNums, db_ok \in BOOLEAN :
          SetSortingStep(PostSetsAdd(set_num, db_ok))
    \/ \E set_num \in SetNums, priority \in Priorities, db_ok \in BOOLEAN, save_ok \in BOOLEAN :
          SetSortingStep(PostSetsActivate(set_num, priority, db_ok, save_ok))
    \/ \E set_id \in SetManagerIds, db_ok \in BOOLEAN, save_ok \in BOOLEAN :
          SetSortingStep(DeleteSetsDeactivate(set_id, db_ok, save_ok))
    \/ \E item_id \in ItemIds, color_id \in ColorIds :
          SetSortingStep(GetDestination(item_id, color_id))
    \/ \E item_id \in ItemIds, set_id \in SetManagerIds, color_id \in ColorIds, db_ok \in BOOLEAN :
          SetSortingStep(RecordSetPieceFound(item_id, set_id, color_id, db_ok))

SpecSetSorting == InitSetSorting /\ [][NextSetSorting]_vars

-----------------------------------------------------------------------------
(* Properties *)

TopologyCoordinates == Range(available_bin_coordinates)
TopologyKeys == { binCoordinatesToKey(c) : c \in TopologyCoordinates }
Occupant(coordinates) == DictGet(current_state, binCoordinatesToKey(coordinates))

\* the order of findAvailableBin's sort key (module index, bin index)
Precedes(a, b) ==
    \/ a.distribution_module_idx < b.distribution_module_idx
    \/ /\ a.distribution_module_idx = b.distribution_module_idx
       /\ a.bin_idx < b.bin_idx

\* C1: two callers that each run findAvailableBin and then reserveBin, for
\* different categories, are never given the same coordinate: once both have
\* completed, each caller's category occupies the coordinate it was given.
\* (Stated for allocations that were not sent to the overflow bin.)
C1_NoDoubleAllocation ==
    ( /\ Len(alloc_log) = 2
      /\ alloc_log[1].caller # alloc_log[2].caller
      /\ alloc_log[1].category_id # alloc_log[2].category_id
      /\ \A i \in {1, 2} : /\ alloc_log[i].coordinates # << >>
                           /\ alloc_log[i].coordinates # fallback_bin_coordinates )
    => /\ alloc_log[1].coordinates # alloc_log[2].coordinates
       /\ \A i \in {1, 2} : Occupant(alloc_log[i].coordinates[1]) = alloc_log[i].category_id

C3_FirstEmptyByDistance ==
    ( /\ last.op = "findAvailableBin"
      /\ \A c \in TopologyCoordinates : Occupant(c) # last.category_id
      /\ \E c \in TopologyCoordinates : Occupant(c) = None )
    => last.result = FirstIn(available_bin_coordinates,
                             { c \in TopologyCoordinates : Occupant(c) = None })

\* the categories requested in the scenario and the coordinates it expects
C4_Requested == << "A", "B", "A", "C" >>
C4_Expected == << <<Coord(1, 0)>>, <<Coord(0, 0)>>, <<Coord(1, 0)>>, << >> >>

\* C4: with module 0 at distance 50 holding 2 bins and module 1 at distance 10
\* holding 1 bin, from a fresh state, allocating A, B, A, C in this order
\* (each a findAvailableBin followed by reserveBin) yields (1,0), (0,0), (1,0)
\* and no bin.
C4_Scenario ==
    ( /\ distribution_modules = ScenarioModules
      /\ Len(alloc_log) <= Len(C4_Requested)
      /\ \A c \in Callers : callers[c].pc = "idle"
      /\ \A i \in 1..Len(alloc_log) :
            /\ alloc_log[i].caller = "c1"
            /\ alloc_log[i].category_id = C4_Requested[i] )
    => \A i \in 1..Len(alloc_log) : alloc_log[i].coordinates = C4_Expected[i]

\* the writes counted by the properties below
BinStateUnchanged ==
    UNCHANGED <<current_state, current_bin_state_id, saved_bin_state, saved_bin_state_id>>

\* C5: reserveBin(coord, c) on a coordinate holding Fallback, with c other
\* than Fallback, is a no-op: no occupant changes, nothing is persisted, the
\* current state id is unchanged, nothing is broadcast and nothing is raised.
C5_FallbackGuard ==
    [][ ( /\ last'.op = "reserveBin"
          /\ last'.before = fallback_category_id
          /\ last'.category_id # fallback_category_id )
        => /\ BinStateUnchanged
           /\ UNCHANGED <<set_bins, misc_bin_coordinates, fallback_bin_coordinates>>
           /\ last'.events = << >>
           /\ last'.raised = None ]_vars

\* a reserveBin for a plain category has just returned from a Fallback bin
C5_Witness ==
    /\ last.op = "reserveBin"
    /\ last.before = fallback_category_id
    /\ last.category_id \in PlainCategories
    /\ Occupant(last.coordinates[1]) = fallback_category_id

\* C6: updateBinCategory(coord, x) sets the occupant of coord to x (Empty when
\* x is null) for every coordinate of the topology, the Fallback and Misc
\* bins included, and changes the occupant of no other coordinate.
C6_DirectUpdate ==
    [][ ( /\ last'.op = "updateBinCategory"
          /\ last'.coordinates[1] \in TopologyCoordinates )
        => LET key == binCoordinatesToKey(last'.coordinates[1])
           IN  /\ DOMAIN current_state' = DOMAIN current_state
               /\ current_state'[key] = last'.category_id
               /\ \A k \in DOMAIN current_state \ {key} :
                     current_state'[k] = current_state[k] ]_vars

\* a direct update has just replaced Fallback or Misc in a bin of the topology
C6_Witness ==
    /\ last.op = "updateBinCategory"
    /\ last.coordinates[1] \in TopologyCoordinates
    /\ last.before \in {fallback_category_id, misc_category_id}
    /\ Occupant(last.coordinates[1]) = last.category_id
    /\ last.category_id # last.before

\* C7: in every reachable state the key set of the bin contents is the set of
\* the topology's coordinates.
C7_KeySetIsTopology == DOMAIN current_state = TopologyKeys

\* C8: a write (reserveBin, updateBinCategory, setMiscBin, setFallbackBin)
\* addressed to a coordinate outside the topology fails with InvalidCoordinate
\* and leaves the contents, the persisted snapshot and the current state id
\* unchanged.  (Stated for calls during which the database accepts writes and
\* the broadcast goes through.)
C8_InvalidCoordinate ==
    [][ ( /\ last'.op \in {"reserveBin", "updateBinCategory", "setMiscBin", "setFallbackBin"}
          /\ last'.coordinates[1] \notin TopologyCoordinates
          /\ last'.raised \notin {"PersistenceFailure", "BroadcastFailure"} )
        => /\ last'.raised = "InvalidCoordinate"
           /\ BinStateUnchanged ]_vars

\* C9: when persisting the snapshot fails during a mutating call, the bin
\* contents and the reservation groups are as they were before the call (and
\* the call is reported as failed).  (Stated for calls that address no
\* coordinate or a coordinate of the topology.)
C9_RollbackOnPersistenceFailure ==
    [][ ( /\ last'.raised = "PersistenceFailure"
          /\ Range(last'.coordinates) \subseteq TopologyCoordinates )
        => UNCHANGED <<current_state, set_bins>> ]_vars

\* C10: every call that changes bin contents applies the change to the store,
\* then persists a snapshot, then broadcasts the new state, in that order.
C10_ApplyPersistBroadcast ==
    ( /\ last.raised = None
      /\ "apply" \in Range(last.events) )
    => \E n \in 1..Len(last.events) :
          last.events = [i \in 1..n |-> "apply"] \o << "persist", "broadcast" >>

\* findAvailableBin has just answered a request that no bin of the topology
\* holds, with no bin Empty
Overflowed ==
    /\ last.op = "findAvailableBin"
    /\ \A c \in TopologyCoordinates : Occupant(c) \notin {last.category_id, None}

\* C11: overflow ordering: when no coordinate holds the requested plain
\* category and no coordinate is Empty, findAvailableBin returns the Misc
\* coordinate if Misc overflow is enabled and a Misc bin exists, and the
\* Fallback coordinate otherwise.
C11_OverflowOrdering ==
    ( Overflowed /\ last.category_id \in PlainCategories )
    => last.result = IF ENABLE_MISC_BIN /\ misc_bin_coordinates # << >>
                     THEN misc_bin_coordinates
                     ELSE fallback_bin_coordinates

\* a plain request overflowed to the Misc bin although a Fallback bin exists
C11_Witness ==
    /\ Overflowed
    /\ last.category_id \in PlainCategories
    /\ ENABLE_MISC_BIN
    /\ misc_bin_coordinates # << >>
    /\ fallback_bin_coordinates # << >>
    /\ misc_bin_coordinates # fallback_bin_coordinates
    /\ TopologyCoordinates # {}
    /\ last.result = misc_bin_coordinates

\* C12: with Misc overflow enabled, no matching bin and no Empty bin,
\* findAvailableBin never returns the Misc coordinate for a request that is
\* Misc, Fallback or a set reservation (a "set:"-prefixed id).
C12_MiscOnlyForPlain ==
    ( /\ Overflowed
      /\ ENABLE_MISC_BIN
      /\ misc_bin_coordinates # << >>
      /\ misc_bin_coordinates # fallback_bin_coordinates
      /\ last.category_id \in {misc_category_id, fallback_category_id, "set:s1"} )
    => last.result # misc_bin_coordinates

\* the Empty coordinates of the topology in the canonical order (modules by
\* distance, then bins by index), before the call
EmptyInCanonicalOrder ==
    SelectSeq(available_bin_coordinates, LAMBDA c : Occupant(c) = None)

\* C13: reserve_bins_for_set(s, n) tags and returns exactly min(n, number of
\* Empty coordinates) coordinates, the first Empty ones in canonical order
\* (module distance ascending, then bin index), and records them as the
\* reservation group of s; fewer than n Empty bins give a shorter list and no
\* error.
C13_ReserveFirstEmpty ==
    [][ ( /\ last'.op = "reserve_bins_for_set"
          /\ last'.raised = None )
        => LET n == IF last'.num_bins < Len(EmptyInCanonicalOrder)
                    THEN last'.num_bins ELSE Len(EmptyInCanonicalOrder)
               expected == SubSeq(EmptyInCanonicalOrder, 1, n)
           IN  /\ last'.result = expected
               /\ \A c \in Range(expected) :
                     current_state'[binCoordinatesToKey(c)] = set_bin_prefix \o last'.set_id
               /\ expected # << >> => DictGet(set_bins', last'.set_id) = expected ]_vars

\* C14: reserve_bins_for_set changes the occupant only of coordinates that
\* were Empty when it was called: the Fallback bin, the Misc bin, bins holding
\* a category and bins reserved for another set keep their occupant.
C14_ReserveTouchesOnlyEmpty ==
    [][ last'.op = "reserve_bins_for_set"
        => /\ DOMAIN current_state' = DOMAIN current_state
           /\ \A k \in DOMAIN current_state :
                 current_state[k] # None => current_state'[k] = current_state[k] ]_vars

\* a reservation that tagged a bin has returned while one bin holds Fallback
\* and another holds a category, Misc or the reservation of another set
C14_Witness ==
    /\ last.op = "reserve_bins_for_set"
    /\ last.result # << >>
    /\ \E c \in TopologyCoordinates : Occupant(c) = fallback_category_id
    /\ \E c \in TopologyCoordinates :
          Occupant(c) \notin {None, fallback_category_id, set_bin_prefix \o last.set_id}

\* a round trip: its contents part, judged when the release has returned, and
\* its result part, judged when the second reserve has returned
RoundTripRestores ==
    /\ trip.stage = 2
       => /\ current_state = trip.contents
          /\ trip.set_id \notin DOMAIN set_bins
          /\ \A c \in Range(trip.reserved) : Occupant(c) = None
    /\ trip.stage = 3 => last.result = trip.reserved

\* C15 as claimed: reserve_bins_for_set(s, n) immediately followed by
\* release_set_bins(s) returns the bin contents to what they were before the
\* reserve (every reserved coordinate Empty, group removed), and a subsequent
\* reserve_bins_for_set(s, n) returns the same coordinates as the first.
C15_RoundTrip == trip.stage \in {2, 3} => RoundTripRestores

\* C15 as amended: ... provided that s has no reservation group when the first
\* reserve is called, or that the first reserve returns at least one
\* coordinate.
C15_RoundTripOfNewGroup ==
    ( /\ trip.stage \in {2, 3}
      /\ ~trip.had_group \/ trip.reserved # << >> )
    => RoundTripRestores

\* a reserve of two bins, the release and the same reserve again have returned
C15_Witness ==
    /\ trip.stage = 3
    /\ Len(trip.reserved) = 2
    /\ last.op = "reserve_bins_for_set"
    /\ last.result = trip.reserved

\* C16: between calls, for every set id s that has a reservation group, each
\* coordinate of the group holds the set reservation of s ("set:s"), after any
\* sequence of reserve, find-for-piece, release, guarded reserve and direct
\* update calls (that returned normally).
C16_GroupsAreTagged ==
    last.raised = None
    => \A s \in DOMAIN set_bins :
          \A c \in Range(set_bins[s]) : Occupant(c) = set_bin_prefix \o s

\* C17: release_set_bins(s) for a set with no reservation group is a no-op and
\* not an error: bin contents, reservation groups and current_bin_state_id are
\* unchanged, nothing is persisted and nothing is broadcast.
C17_ReleaseWithoutGroup ==
    [][ ( /\ last'.op = "release_set_bins"
          /\ last'.set_id \notin DOMAIN set_bins )
        => /\ BinStateUnchanged
           /\ UNCHANGED set_bins
           /\ last'.events = << >>
           /\ last'.raised = None ]_vars

\* release_set_bins(s) has returned without doing anything while a bin is
\* tagged for s (loaded from a snapshot: groups are not persisted)
C17_Witness ==
    /\ last.op = "release_set_bins"
    /\ last.events = << >>
    /\ last.raised = None
    /\ \E c \in TopologyCoordinates : Occupant(c) = set_bin_prefix \o last.set_id

\* C18: find_bin_for_set_piece(s): if the group of s has coordinates it
\* returns the first one and changes nothing; otherwise it tags the first
\* Empty coordinate in canonical order as reserved for s, records it in the
\* group of s and returns it; if no coordinate is Empty it returns the
\* Fallback coordinate.
C18_FindBinForSetPiece ==
    [][ ( /\ last'.op = "find_bin_for_set_piece"
          /\ last'.raised = None )
        => LET s == last'.set_id
               group == DictGet(set_bins, s)
           IN  IF s \in DOMAIN set_bins /\ group # << >>
               THEN /\ last'.result = <<group[1]>>
                    /\ UNCHANGED <<current_state, set_bins>>
               ELSE IF EmptyInCanonicalOrder # << >>
               THEN /\ last'.result = <<EmptyInCanonicalOrder[1]>>
                    /\ current_state' =
                          DictSet(current_state,
                                  binCoordinatesToKey(EmptyInCanonicalOrder[1]),
                                  set_bin_prefix \o s)
                    /\ set_bins' = DictSet(set_bins, s, <<EmptyInCanonicalOrder[1]>>)
               ELSE /\ last'.result = fallback_bin_coordinates
                    /\ UNCHANGED <<current_state, set_bins>> ]_vars

\* C19: when the tracker is constructed from a persisted snapshot (which is
\* then the database's most recent row), every occupant loaded from the
\* snapshot is preserved, and the constructor's Fallback reservation is added
\* only if the snapshot holds no Fallback reservation.
C19_RehydrationKeepsSnapshot ==
    last.op = "__init__"
    => /\ \A k \in DOMAIN saved_bin_state :
             saved_bin_state[k] # None => current_state[k] = saved_bin_state[k]
       /\ (\E k \in DOMAIN saved_bin_state : saved_bin_state[k] = fallback_category_id)
             => \A k \in DOMAIN current_state :
                   current_state[k] = fallback_category_id
                   => DictGet(saved_bin_state, k) = fallback_category_id

\* the calls that write bin contents, and the construction
MutatingOps ==
    { "__init__", "reserveBin", "updateBinCategory", "setMiscBin", "setFallbackBin",
      "reserve_bins_for_set", "release_set_bins", "find_bin_for_set_piece" }

\* C20: after construction (fresh or from a persisted snapshot) and after
\* every mutating call that returns normally, the persisted snapshot
\* identified by current_bin_state_id has the contents of the in-memory bin
\* contents.  (Stated for snapshots that have the keys of the in-memory
\* contents.)
C20_PersistedMatchesMemory ==
    ( /\ last.op \in MutatingOps
      /\ last.raised = None
      /\ DOMAIN saved_bin_state = DOMAIN current_state )
    => /\ current_bin_state_id = saved_bin_state_id
       /\ saved_bin_state = current_state

\* the calls of C21, which broadcast after persisting
BroadcastingOps ==
    { "reserveBin", "updateBinCategory", "reserve_bins_for_set", "release_set_bins" }

\* C21: a failure of the broadcast step never fails the originating mutation:
\* when the broadcast raises (the snapshot was persisted and no broadcast went
\* out), reserveBin, updateBinCategory, reserve_bins_for_set and
\* release_set_bins still return normally, with the change applied and
\* persisted.  (Stated for calls that address no coordinate or a coordinate
\* of the topology.)
C21_BroadcastFailureTolerated ==
    [][ ( /\ last'.op \in BroadcastingOps
          /\ Range(last'.coordinates) \subseteq TopologyCoordinates
          /\ "persist" \in Range(last'.events)
          /\ "broadcast" \notin Range(last'.events) )
        => /\ last'.raised = None
           /\ saved_bin_state' = current_state'
           /\ current_bin_state_id' = saved_bin_state_id' ]_vars

\* C22: mutations are serialized: with several callers invoking mutating
\* operations concurrently, no mutation applies its change to the store while
\* another mutation has applied its change but not yet completed its
\* persistence step; that is, at most one call is between its assignment and
\* the return of its saveBinState.
C22_MutationsSerialized ==
    Cardinality({ c \in Callers : callers[c].pc \in {"updateBinCategory", "reserveBin"} }) <= 1

\* the calls that look for a bin
AllocationOps == { "findAvailableBin", "reserve_bins_for_set", "find_bin_for_set_piece" }

\* C23: with an empty module list the topology is empty and every allocation
\* operation reports no bin: findAvailableBin returns None,
\* reserve_bins_for_set returns an empty list and find_bin_for_set_piece
\* returns None, none of them changing state (nothing applied, persisted or
\* broadcast).
C23_EmptyTopologyNoBin ==
    ( /\ distribution_modules = << >>
      /\ last.op \in AllocationOps )
    => /\ TopologyCoordinates = {}
       /\ last.result = << >>
       /\ last.events = << >>
       /\ last.raised = None

\* C25: after a fresh construction (no persisted snapshot loaded) with at
\* least one bin, the last coordinate in canonical (distance) order holds
\* Fallback; with Misc enabled and at least two bins the second-to-last holds
\* Misc; every other coordinate is Empty; and this initial state has been
\* persisted once, giving current_bin_state_id.
C25_FreshConstruction ==
    ( /\ last.op = "__init__"
      /\ available_bin_coordinates # << >> )
    => LET canonical == _buildAvailableBinCoordinates(distribution_modules)
           n == Len(canonical)
           with_misc == ENABLE_MISC_BIN /\ n >= 2
       IN  /\ Occupant(canonical[n]) = fallback_category_id
           /\ with_misc => Occupant(canonical[n - 1]) = misc_category_id
           /\ \A i \in 1..n :
                 (i # n /\ ~(with_misc /\ i = n - 1)) => Occupant(canonical[i]) = None
           /\ DOMAIN current_state = { binCoordinatesToKey(c) : c \in Range(canonical) }
           /\ saved_bin_state = current_state
           /\ current_bin_state_id = saved_bin_state_id
           /\ current_bin_state_id # NoId

\* a tracker has just been constructed with Misc enabled on three bins, after
\* an earlier run left a snapshot that was not loaded
C25_Witness ==
    /\ last.op = "__init__"
    /\ ENABLE_MISC_BIN
    /\ distribution_modules = ScenarioModules
    /\ current_state = ("1_0" :> None) @@ ("0_0" :> misc_category_id)
                        @@ ("0_1" :> fallback_category_id)
    /\ saved_bin_state = current_state
    /\ current_bin_state_id = 2

\* C26: after release_set_bins(s) no coordinate holds the reservation for s
\* and s has no group, for any preceding sequence of reserve_bins_for_set and
\* find_bin_for_set_piece calls for s, including reserving for s more than
\* once.
C26_ReleaseRemovesReservation ==
    ( /\ last.op = "release_set_bins"
      /\ last.raised = None )
    => /\ last.set_id \notin DOMAIN set_bins
       /\ \A c \in TopologyCoordinates : Occupant(c) # set_bin_prefix \o last.set_id

\* C27: release_set_bins(s) changes only coordinates that hold the
\* reservation for s at the time of the release: a coordinate of the group of
\* s that was meanwhile reassigned by a direct update keeps its occupant.
C27_ReleaseTouchesOnlyReserved ==
    [][ last'.op = "release_set_bins"
        => /\ DOMAIN current_state' = DOMAIN current_state
           /\ \A k \in DOMAIN current_state :
                 current_state[k] # set_bin_prefix \o last'.set_id
                 => current_state'[k] = current_state[k] ]_vars

\* C28: the coordinate that overflow is routed to always holds the matching
\* occupant: in every reachable state fallback_bin_coordinates (when set)
\* designates a coordinate whose occupant is Fallback and misc_bin_coordinates
\* (when set) one whose occupant is Misc.  (Stated for the states left by
\* calls that returned normally.)
C28_OverflowPointersMatchOccupants ==
    last.raised = None
    => /\ fallback_bin_coordinates # << >>
          => Occupant(fallback_bin_coordinates[1]) = fallback_category_id
       /\ misc_bin_coordinates # << >>
          => Occupant(misc_bin_coordinates[1]) = misc_category_id

\* the keys whose occupant is Fallback
FallbackKeys(state) == { k \in DOMAIN state : state[k] = fallback_category_id }

\* C29: at most one coordinate holds Fallback: setFallbackBin(c) moves the
\* Fallback designation to c, so the previously designated bin no longer holds
\* Fallback afterwards.  (Stated as the step of setFallbackBin on a coordinate
\* of the topology, from a state in which at most one coordinate holds
\* Fallback.)
C29_SingleFallback ==
    [][ ( /\ last'.op = "setFallbackBin"
          /\ last'.raised = None
          /\ last'.coordinates[1] \in TopologyCoordinates
          /\ Cardinality(FallbackKeys(current_state)) <= 1 )
        => FallbackKeys(current_state') = { binCoordinatesToKey(last'.coordinates[1]) } ]_vars

\* C30: for a plain category c, findAvailableBin(c) followed by reserveBin on
\* the returned coordinate never changes the occupant of the Misc bin or of
\* the Fallback bin: routing an overflowing category to an overflow bin does
\* not relabel that bin.  (Stated for allocations that returned normally.)
C30_OverflowKeepsLabels ==
    [][ ( /\ last'.op = "reserveBin"
          /\ last'.result # << >>
          /\ last'.raised = None
          /\ last'.category_id \in PlainCategories )
        => \A k \in DOMAIN current_state :
              current_state[k] \in {misc_category_id, fallback_category_id}
              => current_state'[k] = current_state[k] ]_vars

\* C31: reservation groups are pairwise disjoint: in every reachable state no
\* coordinate belongs to the reservation groups of two different set ids.
C31_GroupsDisjoint ==
    \A s1 \in DOMAIN set_bins : \A s2 \in DOMAIN set_bins \ {s1} :
        Range(set_bins[s1]) \cap Range(set_bins[s2]) = {}

\* the sets with an active row of the current run
ActiveNow ==
    { active_sorting_sets[i].set_id :
        i \in { j \in 1..Len(active_sorting_sets) :
                  /\ active_sorting_sets[j].run_id = run_id
                  /\ ~active_sorting_sets[j].disabled } }

\* the priorities the set was activated with in its active rows
ActivePriorities(set_id) ==
    { active_sorting_sets[i].priority :
        i \in { j \in 1..Len(active_sorting_sets) :
                  /\ active_sorting_sets[j].run_id = run_id
                  /\ active_sorting_sets[j].set_id = set_id
                  /\ ~active_sorting_sets[j].disabled } }

\* the inventory rows of the set for the item, and for the colour when given
PieceRows(set_id, item_id, color_id) ==
    { row \in DOMAIN set_inventories :
        /\ row[1] = set_id
        /\ row[2] = item_id
        /\ color_id = None \/ row[3] = color_id }

\* the active sets that still need the piece
MatchingSets(item_id, color_id) ==
    { set_id \in ActiveNow :
        \E row \in PieceRows(set_id, item_id, color_id) :
            set_inventories[row].quantity_found < set_inventories[row].quantity_needed }

\* every priority of a is above every priority of b
Outranks(a, b) ==
    \A pa \in ActivePriorities(a) : \A pb \in ActivePriorities(b) : pa > pb

C36_ActivateAddsMissingSet ==
    [][ ( /\ reply'.op = "activateSet"
          /\ reply'.set_id \notin lego_sets
          /\ getSetInfo(reply'.set_id) # << >> ) =>
            /\ reply'.success
            /\ reply'.set_id \in lego_sets' ]_vars

\* C37: activating and deactivating answer 400 when the operation returned
\* failure, adding answers 404 when the set could not be added, and 500 is
\* answered only when an exception was raised.
C37_DeclaredStatuses ==
    /\ (reply.op \in {"activateSet", "deactivateSet"} /\ ~reply.success) => reply.status = 400
    /\ (reply.op = "add_set" /\ reply.returned = None) => reply.status = 404
    /\ reply.status = 500 => reply.raised # None

\* C38: no inventory row has more pieces found than needed, and no set is
\* more than 100 percent complete.
C38_FoundWithinNeeded ==
    /\ \A row \in DOMAIN set_inventories :
           set_inventories[row].quantity_found <= set_inventories[row].quantity_needed
    /\ \A set_id \in lego_sets : completion_percentage(SetDb, set_id) <= 100

====
